---------------------------- MODULE Spec2Model ----------------------------
(***************************************************************************)
(* Model of js-terminal: the sandbox worker (assets/js/worker.js) and the  *)
(* terminal page that drives it (the orchestration script).                *)
(*                                                                         *)
(* Strings of the program are kept as strings; the one character changed   *)
(* is U+2026 (horizontal ellipsis), written "..." here.                    *)
(***************************************************************************)
EXTENDS Integers, Sequences, FiniteSets, TLC

VARIABLES
  \* ---- formatter harness (SpecFmt) ----
  fheap,      \* the object graph handed to formatValue: Seq of [tag, elems]
  finput,     \* the value handed to formatValue
  fres,       \* what formatValue returned (or threw)
  fpc,        \* "input" before the call, "done" after it
  \* ---- resolveSpec harness (SpecResolve) ----
  rspec,      \* the specifier handed to resolveSpec
  rurl,       \* what resolveSpec returned
  rpc,        \* "input" before the call, "done" after it
  \* ---- console.table harness (SpecTable) ----
  theap,      \* the object graph `data` lives in
  tdata,      \* console.table's first argument
  tcols,      \* console.table's second argument
  tmsg,       \* the table message posted
  tpc,        \* "input" before the call, "done" after it
  \* ---- the terminal page (host) ----
  worker,     \* `worker`: which Worker object is current (1, 2, ...)
  pending,    \* `pending`: the ids in the Map (startedAt is not kept)
  status,     \* status.textContent
  out,        \* the lines appended to #output, oldest first
  subs,       \* the submissions run() made so far: id -> [prog, gen]
  history,    \* `history`: the texts kept for recall, oldest first
  \* ---- the current sandbox instance (worker.js) ----
  wstate,     \* "loading" while the script runs, then "ready"
  inbox,      \* messages posted to the instance, not dispatched yet
  evals,      \* evaluations suspended at an await: [id, prog, stage]
  rejections, \* rejected promises nobody awaits, not reported yet
  chan,       \* messages the instance posted, not yet handled by the page
  \* ---- history of the run (read by the properties only) ----
  emitted,    \* every message the current instance posted, in order
  calls,      \* id -> console.log calls its code has made so far
  settled,    \* ids whose evalCode has returned, on the current instance
  readySeen,  \* the Worker objects whose "ready" the page has handled
  discarded,  \* ids whose result/error was dropped by terminate()
  loads,      \* number of .load commands so far
  cmds,       \* number of other commands so far
  stored      \* what localStorage held for the history at page load

fmtVars == <<fheap, finput, fres, fpc>>
resVars == <<rspec, rurl, rpc>>
tblVars == <<theap, tdata, tcols, tmsg, tpc>>
harnessVars == <<fmtVars, resVars, tblVars>>
hostVars == <<worker, pending, status, out, subs, history>>
workerVars == <<wstate, inbox, evals, rejections, chan>>
histVars == <<emitted, calls, settled, readySeen, discarded, loads, cmds, stored>>
sysVars == <<hostVars, workerVars, histVars>>
vars == <<harnessVars, sysVars>>

-----------------------------------------------------------------------------
(* Runtime values.  A value is [k, v]: k the category formatValue          *)
(* dispatches on, v a number (the number itself, an index into a table, or *)
(* the address of a composite in the heap).                                *)

Null      == [k |-> "null",  v |-> 0]
Undefined == [k |-> "undef", v |-> 0]
Num(n)    == [k |-> "num",   v |-> n]
Str(i)    == [k |-> "str",   v |-> i]
Err(i)    == [k |-> "err",   v |-> i]
Ref(a)    == [k |-> "ref",   v |-> a]
\* A member whose read throws (an accessor property): the number v, or the
\* composite at address v.
ThrowNum(n) == [k |-> "throwNum", v |-> n]
ThrowRef(a) == [k |-> "throwRef", v |-> a]
\* "nothing was thrown"
NoThrow   == [k |-> "none",  v |-> 0]

\* Text of the string values and of the error messages the model uses.
StrText(i) ==
  CASE i = 0 -> "(index)"
    [] i = 1 -> "hello"
    [] i = 2 -> "a"
    [] i = 3 -> "b"
    [] OTHER -> "k" \o ToString(i)

ErrName(i) ==
  CASE i = 1 -> "SyntaxError"
    [] i = 2 -> "ReferenceError"
    [] OTHER -> "Error"

ErrMessage(i) ==
  CASE i = 1 -> "Unexpected token"
    [] i = 2 -> "x is not defined"
    [] OTHER -> "boom"

\* JSON.stringify of a string without characters that need escaping.
JSONStringify(s) == "\"" \o s \o "\""

\* A member of a composite: arrays and Sets use val only, Maps key => val,
\* generic objects a string key and val.
Member(key, val) == [key |-> key, val |-> val]
Elem(val) == Member(Undefined, val)

\* formatValue's element limit per collection.
Limit == 50
\* formatValue expands composites at depth 0..MaxDepth.
MaxDepth == 2


-----------------------------------------------------------------------------
(* formatValue (worker.js 10-68).  The heap h is a sequence of composites  *)
(* [tag, elems]; Ref(a) is the composite h[a].  The result is              *)
(*   out     the text returned (meaningless when thrown # NoThrow),         *)
(*   seen    the WeakSet after the call,                                    *)
(*   thrown  the value the call threw, or NoThrow,                          *)
(*   visits  a record of what the call did at each composite it reached:    *)
(*           [addr, how, onPath, depth], how one of "expand" (its members   *)
(*           were enumerated), "circular" (a circular marker was returned), *)
(*           "collapse" (the depth placeholder was returned); onPath says   *)
(*           whether the composite is an ancestor of itself at that point.  *)
(* path (the set of ancestors) only feeds visits; the code has no such     *)
(* parameter.                                                               *)

IsThrower(val) == val.k \in {"throwNum", "throwRef"}
Thrown(val) == IF val.k = "throwNum" THEN Num(val.v) ELSE Ref(val.v)

Min(a, b) == IF a < b THEN a ELSE b

Visit(a, how, path, depth) ==
  [addr |-> a, how |-> how, onPath |-> (a \in path), depth |-> depth]

\* parts.push(part) followed, at the end, by parts.join(", ")
Push(acc, part) ==
  [acc EXCEPT !.parts = IF acc.n = 0 THEN part ELSE acc.parts \o ", " \o part,
              !.n = acc.n + 1]

RECURSIVE FormatValue(_, _, _, _, _)
RECURSIVE FormatParts(_, _, _, _, _, _, _, _)
RECURSIVE FormatRest(_, _, _, _, _, _, _, _)

\* The last member the loop over a composite of n members reaches:
\* slice(0, 50) for arrays and generic objects; the for-of loops of Map and
\* Set break at the member at which ++i > 50 holds.
LastIndex(tag, n) ==
  IF tag \in {"Map", "Set"} THEN Min(n, Limit + 1) ELSE Min(n, Limit)

Plain(text, seen) ==
  [out |-> text, seen |-> seen, thrown |-> NoThrow, visits |-> {}]

\* a throw inside the loop: nothing more is pushed
Abort(acc, r) ==
  [acc EXCEPT !.thrown = r.thrown, !.seen = r.seen,
              !.visits = acc.visits \cup r.visits]

\* parts.push(text) after the member's value was formatted as r
Pushed(acc, text, r) ==
  [Push(acc, text) EXCEPT !.seen = r.seen, !.visits = acc.visits \cup r.visits]

\* member i with its key formatted as kr and its value as vr
PartDone(tag, m, i, acc, kr, vr) ==
  IF vr.thrown # NoThrow THEN Abort(Abort(acc, kr), vr)
  ELSE IF tag = "Map"
    THEN IF i > Limit   \* if (++i > 50) { parts.push("..."); break; }
           THEN Push(Pushed(Abort(acc, kr), kr.out \o " => " \o vr.out, vr), "...")
           ELSE Pushed(Abort(acc, kr), kr.out \o " => " \o vr.out, vr)
  ELSE IF tag = "Set"
    THEN IF i > Limit
           THEN Push(Pushed(acc, vr.out, vr), "...")
           ELSE Pushed(acc, vr.out, vr)
  ELSE IF tag = "Object"
    THEN Pushed(acc, JSONStringify(StrText(m.key.v)) \o ": " \o vr.out, vr)
  ELSE Pushed(acc, vr.out, vr)

\* member i with its key formatted as kr (Map only)
PartKeyed(h, tag, m, i, depth, path, acc, kr) ==
  IF kr.thrown # NoThrow THEN Abort(acc, kr)
  ELSE PartDone(tag, m, i, acc, kr,
                FormatValue(h, m.val, depth + 1, kr.seen, path))

\* One round of the loops of formatValue: member i of a composite, acc
\* being the parts pushed and the WeakSet so far.
FormatPart(h, tag, m, i, depth, path, acc) ==
  IF acc.thrown # NoThrow THEN acc
  ELSE IF tag = "Object" /\ IsThrower(m.val)      \* val[k] throws
    THEN [acc EXCEPT !.thrown = Thrown(m.val)]
  ELSE IF tag = "Map"
    THEN PartKeyed(h, tag, m, i, depth, path, acc,
                   FormatValue(h, m.key, depth + 1, acc.seen, path))
  ELSE PartKeyed(h, tag, m, i, depth, path, acc, Plain("", acc.seen))

\* The rounds for members lo..hi, in order: those of the lower half, then,
\* unless one of them threw, those of the upper half (halves keep the
\* evaluation shallow).
FormatRest(h, tag, elems, lo, hi, depth, path, done) ==
  IF done.thrown # NoThrow THEN done
  ELSE FormatParts(h, tag, elems, lo, hi, depth, path, done)

FormatParts(h, tag, elems, lo, hi, depth, path, acc) ==
  IF lo > hi THEN acc
  ELSE IF lo = hi THEN FormatPart(h, tag, elems[lo], lo, depth, path, acc)
  ELSE FormatRest(h, tag, elems, ((lo + hi) \div 2) + 1, hi, depth, path,
                  FormatParts(h, tag, elems, lo, (lo + hi) \div 2, depth, path, acc))

\* nothing pushed yet
NoParts(seen) ==
  [parts |-> "", n |-> 0, seen |-> seen, thrown |-> NoThrow, visits |-> {}]

\* the composite at a rendered as text without enumerating it
Leaf(a, text, seen, how, path, depth) ==
  [out |-> text, seen |-> seen, thrown |-> NoThrow,
   visits |-> {Visit(a, how, path, depth)}]

\* the composite at a rendered from r, the rounds over its members
Expanded(a, tag, n, r, path, depth) ==
  [out |-> CASE tag = "Array" ->
                  "Array(" \o ToString(n) \o ") [" \o r.parts
                    \o (IF n > Limit THEN ", ..." ELSE "") \o "]"
             [] tag \in {"Map", "Set"} ->
                  tag \o "(" \o ToString(n) \o ") { " \o r.parts \o " }"
             [] OTHER ->
                  \* if (keys.length > 50) parts.push("...")
                  "{ " \o (IF n > Limit THEN Push(r, "...").parts ELSE r.parts) \o " }",
   seen |-> r.seen, thrown |-> r.thrown,
   visits |-> r.visits \cup {Visit(a, "expand", path, depth)}]

\* val.slice(0, 50) reads the elements before any of them is formatted: the
\* first one whose read throws, 0 if none does
FirstThrower(els) ==
  IF \E i \in 1..Min(Len(els), Limit) : IsThrower(els[i].val)
    THEN CHOOSE i \in 1..Min(Len(els), Limit) :
           /\ IsThrower(els[i].val)
           /\ \A j \in 1..(i - 1) : ~IsThrower(els[j].val)
    ELSE 0

\* depth > 2: the composite is not expanded (worker.js 24, 28, 40, 57)
TooDeepLate(depth) == depth > 3

TooDeep(depth) == depth > MaxDepth

FormatComposite(h, a, tag, els, depth, seen, path) ==
  CASE tag = "Array" ->
         IF TooDeep(depth)
           THEN Leaf(a, "Array(" \o ToString(Len(els)) \o ") [...]", seen,
                     "collapse", path, depth)
         ELSE IF FirstThrower(els) # 0
           THEN Expanded(a, tag, Len(els),
                         [NoParts(seen) EXCEPT
                            !.thrown = Thrown(els[FirstThrower(els)].val)],
                         path, depth)
         ELSE Expanded(a, tag, Len(els),
                       FormatParts(h, tag, els, 1, LastIndex(tag, Len(els)), depth,
                                   path \cup {a}, NoParts(seen)),
                       path, depth)
    [] tag \in {"Map", "Set"} ->
         IF a \in seen
           THEN Leaf(a, "[Circular " \o tag \o "]", seen, "circular", path, depth)
         ELSE IF TooDeep(depth)
           THEN Leaf(a, tag \o "(...)", seen \cup {a}, "collapse", path, depth)
         ELSE Expanded(a, tag, Len(els),
                       FormatParts(h, tag, els, 1, LastIndex(tag, Len(els)), depth,
                                   path \cup {a}, NoParts(seen \cup {a})),
                       path, depth)
    [] OTHER ->   \* generic object
         IF a \in seen
           THEN Leaf(a, "[Circular]", seen, "circular", path, depth)
         ELSE IF TooDeep(depth)
           THEN Leaf(a, "{...}", seen \cup {a}, "collapse", path, depth)
         ELSE Expanded(a, tag, Len(els),
                       FormatParts(h, tag, els, 1, LastIndex(tag, Len(els)), depth,
                                   path \cup {a}, NoParts(seen \cup {a})),
                       path, depth)

FormatValue(h, val, depth, seen, path) ==
  CASE val.k = "null"  -> Plain("null", seen)
    [] val.k = "undef" -> Plain("undefined", seen)
    [] val.k = "str"   -> Plain(JSONStringify(StrText(val.v)), seen)
    [] val.k = "num"   -> Plain(ToString(val.v), seen)
    [] val.k = "err"   ->
         Plain(ErrName(val.v) \o ": " \o ErrMessage(val.v) \o "\n" \o "<stack>", seen)
    [] val.k = "promise" -> Plain("[Promise]", seen)
    [] val.k = "ref" ->
         FormatComposite(h, val.v, h[val.v].tag, h[val.v].elems, depth, seen, path)
    [] OTHER -> Plain("[Unserializable]", seen)

\* formatValue(val): depth = 0, seen = new WeakSet()
FormatTop(h, val) == FormatValue(h, val, 0, {}, {})

\* formatArgs (worker.js 70-76): the arguments formatted and joined by " ";
\* a throw of formatValue becomes "[format error] " + message.
RECURSIVE JoinArgs(_, _, _)
JoinOne(r, rest, last) ==
  IF r.thrown # NoThrow THEN [out |-> "", thrown |-> r.thrown]
  ELSE IF last THEN [out |-> r.out, thrown |-> NoThrow]
  ELSE IF rest.thrown # NoThrow THEN rest
  ELSE [out |-> r.out \o " " \o rest.out, thrown |-> NoThrow]

JoinArgs(h, args, i) ==
  IF i > Len(args) THEN [out |-> "", thrown |-> NoThrow]
  ELSE JoinOne(FormatTop(h, args[i]), JoinArgs(h, args, i + 1), i = Len(args))

\* e && e.message ? e.message : String(e), for the values a member read throws
ErrText(e) ==
  CASE e.k = "err" -> ErrMessage(e.v)
    [] e.k = "num" -> ToString(e.v)
    [] OTHER       -> "[object Object]"

FormatError(r) ==
  IF r.thrown # NoThrow THEN "[format error] " \o ErrText(r.thrown) ELSE r.out

FormatArgs(h, args) == FormatError(JoinArgs(h, args, 1))


-----------------------------------------------------------------------------
(* console.table (worker.js 92-112).  A row is kept as                     *)
(*   truthy  whether `row &&` lets the member read happen,                 *)
(*   self    the row itself when it is a value of the caller (falsy rows   *)
(*           are rendered as themselves),                                  *)
(*   props   its own enumerable members in order: [name, key, val], name   *)
(*           the key as text, key the key as a value.                      *)
(* Rows that are strings (which have index members) and headers that name  *)
(* inherited members are not among the inputs.                             *)

Prop(name, key, val) == [name |-> name, key |-> key, val |-> val]

\* the own enumerable members of val: Object.keys / Object.entries / spread
OwnProps(h, val) ==
  IF val.k # "ref" THEN <<>>
  ELSE CASE h[val.v].tag = "Object" ->
              [i \in DOMAIN h[val.v].elems |->
                 Prop(StrText(h[val.v].elems[i].key.v), h[val.v].elems[i].key,
                      h[val.v].elems[i].val)]
         [] h[val.v].tag = "Array" ->
              [i \in DOMAIN h[val.v].elems |->
                 Prop(ToString(i - 1), Num(i - 1), h[val.v].elems[i].val)]
         [] OTHER -> <<>>      \* a Map or a Set has none

Truthy(val) ==
  CASE val.k \in {"null", "undef"} -> FALSE
    [] val.k = "num" -> val.v # 0
    [] OTHER -> TRUE

HasProp(props, name) == \E i \in DOMAIN props : props[i].name = name

\* the member called name; props holds a name once
PropNamed(props, name) == props[CHOOSE i \in DOMAIN props : props[i].name = name]

\* a row of the caller
RowOf(h, val) == [truthy |-> Truthy(val), self |-> val, props |-> OwnProps(h, val)]

\* ({ "(index)": k, ...v }): "(index)" stays the first member and takes
\* v's own "(index)" when v has one
IndexRow(h, k, v) ==
  [truthy |-> TRUE, self |-> Undefined,
   props |-> << IF HasProp(OwnProps(h, v), "(index)")
                  THEN PropNamed(OwnProps(h, v), "(index)")
                  ELSE Prop("(index)", Str(0), k) >>
             \o SelectSeq(OwnProps(h, v), LAMBDA q : q.name # "(index)")]

\* worker.js 94-101: normalize to an array of rows
TableRows(h, data) ==
  IF data.k = "ref" /\ h[data.v].tag = "Array"
    THEN [i \in DOMAIN h[data.v].elems |-> RowOf(h, h[data.v].elems[i].val)]
  ELSE IF data.k = "ref"
    THEN [i \in DOMAIN OwnProps(h, data) |->
            IndexRow(h, OwnProps(h, data)[i].key, OwnProps(h, data)[i].val)]
  ELSE << [truthy |-> TRUE, self |-> Undefined,
           props |-> <<Prop("value", Undefined, data)>>] >>

\* set.add(k) for the keys of one row, in order
RECURSIVE AddKeys(_, _, _)
AddKeys(hs, props, i) ==
  IF i > Len(props) THEN hs
  ELSE AddKeys(IF \E j \in DOMAIN hs : hs[j] = props[i].name
                 THEN hs ELSE Append(hs, props[i].name),
               props, i + 1)

\* rows.reduce(...): the keys of all rows into one Set, i.e. in the order
\* in which they were first seen
RECURSIVE UnionKeys(_, _, _)
UnionKeys(hs, rows, r) ==
  IF r > Len(rows) THEN hs
  ELSE UnionKeys(AddKeys(hs, rows[r].props, 1), rows, r + 1)

\* console.table's second argument: kind "none" (undefined), "array" or
\* "other" (a value that is no array), names the array's elements
Columns(kind, names) == [kind |-> kind, names |-> names]

\* worker.js 103-108
TableHeaders(rows, columns) ==
  IF columns.kind = "array" /\ Len(columns.names) > 0
    THEN columns.names
    ELSE UnionKeys(<<>>, rows, 1)

\* formatValue(row && row[h])
TableCell(h, row, name) ==
  IF ~row.truthy THEN FormatTop(h, row.self)
  ELSE IF ~HasProp(row.props, name) THEN FormatTop(h, Undefined)
  ELSE IF IsThrower(PropNamed(row.props, name).val)
    THEN [NoParts({}) EXCEPT !.thrown = Thrown(PropNamed(row.props, name).val)]
  ELSE FormatTop(h, PropNamed(row.props, name).val)

\* the table message, or what was thrown on the way to it
TableMsg(headers, cells) ==
  IF \E r \in DOMAIN cells : \E c \in DOMAIN cells[r] : cells[r][c].thrown # NoThrow
    THEN LET r == CHOOSE r \in DOMAIN cells :
                    /\ \E c \in DOMAIN cells[r] : cells[r][c].thrown # NoThrow
                    /\ \A q \in 1..(r - 1) :
                         \A c \in DOMAIN cells[q] : cells[q][c].thrown = NoThrow
             c == CHOOSE c \in DOMAIN cells[r] :
                    /\ cells[r][c].thrown # NoThrow
                    /\ \A q \in 1..(c - 1) : cells[r][q].thrown = NoThrow
         IN [headers |-> <<>>, rows |-> <<>>, thrown |-> cells[r][c].thrown]
    ELSE [headers |-> headers,
          rows |-> [r \in DOMAIN cells |-> [c \in DOMAIN cells[r] |-> cells[r][c].out]],
          thrown |-> NoThrow]

\* worker.js 110-111 for the rows and headers found
TableOf(h, rows, headers) ==
  TableMsg(headers,
           [r \in DOMAIN rows |->
              [c \in DOMAIN headers |-> TableCell(h, rows[r], headers[c])]])

\* console.table(data, columns)
ConsoleTable(h, data, columns) ==
  TableOf(h, TableRows(h, data), TableHeaders(TableRows(h, data), columns))

-----------------------------------------------------------------------------
(* The console.table harness: console.table applied to an array, a plain   *)
(* object or a Map holding up to MaxRows rows, or to a primitive, with     *)
(* each kind of column argument.                                           *)

\* rows per table
MaxRows == 2

\* the objects rows are made of:
\*   1: {a: 1, b: 2}   2: {a: 3, b: 4}   3: {b: 5, k4: 6}
\*   4: {"(index)": 9, a: 1}   5: { get a() { throw 1 } }
RowObjects ==
  << [tag |-> "Object", elems |-> <<Member(Str(2), Num(1)), Member(Str(3), Num(2))>>],
     [tag |-> "Object", elems |-> <<Member(Str(2), Num(3)), Member(Str(3), Num(4))>>],
     [tag |-> "Object", elems |-> <<Member(Str(3), Num(5)), Member(Str(4), Num(6))>>],
     [tag |-> "Object", elems |-> <<Member(Str(0), Num(9)), Member(Str(2), Num(1))>>],
     [tag |-> "Object", elems |-> <<Member(Str(2), ThrowNum(1))>>] >>

RowValues == {Ref(a) : a \in DOMAIN RowObjects} \cup {Null, Num(0), Num(5)}

\* the container of the rows vs: an array, an object with the keys "k11",
\* "k12", ..., or a Map with these keys
TableHeap(tag, vs) ==
  Append(RowObjects,
         [tag |-> tag,
          elems |-> [i \in DOMAIN vs |->
                       IF tag = "Array" THEN Elem(vs[i]) ELSE Member(Str(10 + i), vs[i])]])

\* no message yet
NoTable == [headers |-> <<>>, rows |-> <<>>, thrown |-> NoThrow]

ColumnArgs ==
  { Columns("none", <<>>), Columns("other", <<>>), Columns("array", <<>>),
    Columns("array", <<"a">>), Columns("array", <<"b", "a">>),
    Columns("array", <<"a", "a">>), Columns("array", <<"zz">>),
    Columns("array", <<"(index)", "a">>) }

TblInit ==
  /\ \/ \E tag \in {"Array", "Object", "Map"} : \E n \in 0..MaxRows :
          \E vs \in [1..n -> RowValues] :
            /\ theap = TableHeap(tag, vs)
            /\ tdata = Ref(Len(RowObjects) + 1)
     \/ /\ theap = RowObjects
        /\ tdata \in {Null, Undefined, Num(5)}
  /\ tcols \in ColumnArgs
  /\ tmsg = NoTable
  /\ tpc = "input"

\* console.table(tdata, tcols)
Table ==
  /\ tpc = "input"
  /\ tmsg' = ConsoleTable(theap, tdata, tcols)
  /\ tpc' = "done"
  /\ UNCHANGED <<theap, tdata, tcols>>

-----------------------------------------------------------------------------
(* The formatter harness: formatValue applied to object graphs drawn from  *)
(* two families.                                                           *)
(*   Chain: composites 1 -> 2 -> ... -> n, each of any of the four kinds;  *)
(*          the last one holds a number or a reference back to composite   *)
(*          `back` (a cycle); composite `dup`, when not 0, holds its       *)
(*          successor twice (a shared reference).                          *)
(*   Flat:  one composite of any kind holding len numbers.                 *)

CollTags == {"Array", "Map", "Set", "Object"}

\* longest chain of composites
MaxChain == 4
\* flat collections hold 0 .. Limit + Extra members
Extra == 2

\* the i-th member of a composite of kind tag holding val
MemberAt(tag, i, val) ==
  CASE tag = "Map"    -> Member(Num(i), val)
    [] tag = "Object" -> Member(Str(i + 1), val)
    [] OTHER          -> Elem(val)

ChainHeap(n, tags, back, dup) ==
  [i \in 1..n |->
     [tag   |-> tags[i],
      elems |-> IF i = n
                  THEN <<MemberAt(tags[i], 1, IF back = 0 THEN Num(7) ELSE Ref(back))>>
                ELSE IF i = dup
                  THEN <<MemberAt(tags[i], 1, Ref(i + 1)), MemberAt(tags[i], 2, Ref(i + 1))>>
                ELSE <<MemberAt(tags[i], 1, Ref(i + 1))>>]]

FlatHeap(tag, len) ==
  <<[tag |-> tag, elems |-> [i \in 1..len |-> MemberAt(tag, i, Num(i))]]>>

NoResult == [out |-> "", seen |-> {}, thrown |-> NoThrow, visits |-> {}]

FmtInit ==
  /\ \/ \E n \in 1..MaxChain : \E tags \in [1..n -> CollTags] :
          \E back \in 0..n :
            \* a Set holds a value once
            \E dup \in {d \in 0..(n - 1) : d = 0 \/ tags[d] # "Set"} :
              fheap = ChainHeap(n, tags, back, dup)
     \/ \E tag \in CollTags : \E len \in 0..(Limit + Extra) :
          fheap = FlatHeap(tag, len)
  /\ finput = Ref(1)
  /\ fres = NoResult
  /\ fpc = "input"

\* formatValue(finput)
Format ==
  /\ fpc = "input"
  /\ fres' = FormatTop(fheap, finput)
  /\ fpc' = "done"
  /\ UNCHANGED <<fheap, finput>>


-----------------------------------------------------------------------------
(* Submitted programs.  A program is the text the user typed together with *)
(* what running it does:                                                   *)
(*   syn       "script"  eval(code) parses it;                             *)
(*             "fnbody"  eval rejects it (top-level await / return) but it *)
(*                       is a valid async function body;                   *)
(*             "invalid" neither parses it                                 *)
(*   logs      console.log calls in the synchronous part of one run        *)
(*   fault     "sync": the synchronous part throws val after its logs;     *)
(*             "async": the promise it waits on rejects with val           *)
(*   wait      the run waits on a promise that settles in a later task     *)
(*             (script: the value of the text is that promise; fnbody: a   *)
(*             top-level await)                                            *)
(*   logsAfter console.log calls after the wait                            *)
(*   val       the value of the text: of its last expression (the          *)
(*             fulfilment value when that is a promise), or what it throws *)
(*   ret       what the text returns when run as a function body           *)

\* The composites the programs' values live in.
\*   1: { get a() { throw 1 } }
\*   2: o = { get a() { throw o } }
SysHeap ==
  << [tag |-> "Object", elems |-> <<Member(Str(2), ThrowNum(1))>>],
     [tag |-> "Object", elems |-> <<Member(Str(2), ThrowRef(2))>>] >>

Prog(src, syn, logs, fault, wait, logsAfter, val, ret) ==
  [src |-> src, syn |-> syn, logs |-> logs, fault |-> fault, wait |-> wait,
   logsAfter |-> logsAfter, val |-> val, ret |-> ret]

Programs ==
  { Prog("2 ** 10", "script", 0, "none", FALSE, 0, Num(1024), Undefined),
    Prog("console.log('hello'); console.log('hello'); 2",
         "script", 2, "none", FALSE, 0, Num(2), Undefined),
    Prog("console.log('hello'); x",
         "script", 1, "sync", FALSE, 0, Err(2), Undefined),
    Prog("let x = await Promise.resolve(1); x + 1",
         "fnbody", 0, "none", FALSE, 0, Num(2), Undefined),
    Prog("console.log('hello'); await new Promise(r => setTimeout(r, 100)); console.log('hello'); return 2",
         "fnbody", 1, "none", TRUE, 1, Num(2), Num(2)),
    Prog("new Promise(r => setTimeout(() => r(2), 100))",
         "script", 0, "none", TRUE, 0, Num(2), Undefined),
    Prog("new Promise((_, r) => setTimeout(() => r(new Error('boom')), 100))",
         "script", 0, "async", TRUE, 0, Err(3), Undefined),
    Prog("({ get a() { throw 1 } })",
         "script", 0, "none", FALSE, 0, Ref(1), Undefined),
    Prog("const o = { get a() { throw o } }; throw o",
         "script", 0, "sync", FALSE, 0, Ref(2), Undefined),
    Prog("}{", "invalid", 0, "none", FALSE, 0, Undefined, Undefined) }

\* The messages of the worker -> page channel.  id = 0: no id.  sub, n and
\* via are not part of the message: sub is the submission whose code was
\* running (0: none), n the number of the console.log call among that
\* submission's calls, via the attempt that produced a result, gen the
\* Worker object the posting instance belongs to.
Msg(type, id, formatted, sub, n, via) ==
  [type |-> type, id |-> id, formatted |-> formatted, sub |-> sub, n |-> n,
   via |-> via, gen |-> 0]

\* console.log that keeps its messages back instead of posting them
LogsHeldBack(id, c, k) == <<>>

\* console.log('hello') called k times, after c earlier calls of this
\* submission: each call posts its message at once (worker.js 78-90).
Logs(id, c, k) ==
  [i \in 1..k |->
     Msg("console", 0, FormatArgs(SysHeap, <<Str(1)>>), id, c + i, "")]

\* What one task of evalCode did: the messages it posted, in order; where
\* it is suspended ("none": evalCode is at its end); the values of the
\* promises it left rejected with nobody awaiting them; the console.log
\* calls made; and how evalCode ends: kind "result" (worker.js 156 is
\* reached with result = val), "error" (val was thrown to the catch at 157)
\* or "none" (suspended).
Outcome(msgs, susp, rej, ncalls, kind, val, via) ==
  [msgs |-> msgs, susp |-> susp, rej |-> rej, ncalls |-> ncalls,
   end |-> [kind |-> kind, val |-> val, via |-> via]]

Suspended(msgs, stage, ncalls) ==
  Outcome(msgs, stage, <<>>, ncalls, "none", Undefined, "")

\* run `first` (messages already posted, calls already made), then `o`
Then(first, k, o) ==
  [o EXCEPT !.msgs = first \o o.msgs, !.ncalls = k + o.ncalls]

\* e is thrown inside the try of evalCode
Fail(id, e) == Outcome(<<>>, "none", <<>>, 0, "error", e, "")

\* the attempt `via` produced v
Finish(id, v, via) == Outcome(<<>>, "none", <<>>, 0, "result", v, via)

\* The end of evalCode (worker.js 156-159):
\*   send("result", { id, formatted: formatValue(result) }) inside the try,
\*   catch (err) { send("error", { id, formatted: formatValue(err) }) }.
\* A throw of formatValue(result) is caught like any other; a throw of
\* formatValue(err) leaves evalCode, and with it the promise of the async
\* onmessage handler, rejected.
SettleCaught(id, o, r2) ==
  IF r2.thrown = NoThrow
    THEN [o EXCEPT !.msgs = @ \o <<Msg("error", id, r2.out, id, 0, "")>>]
    ELSE [o EXCEPT !.rej = @ \o <<r2.thrown>>]

SettleResult(id, o, r1) ==
  IF r1.thrown = NoThrow
    THEN [o EXCEPT !.msgs = @ \o <<Msg("result", id, r1.out, id, 0, o.end.via)>>]
    ELSE SettleCaught(id, o, FormatTop(SysHeap, r1.thrown))

Settle(id, o) ==
  CASE o.end.kind = "result" -> SettleResult(id, o, FormatTop(SysHeap, o.end.val))
    [] o.end.kind = "error"  -> SettleCaught(id, o, FormatTop(SysHeap, o.end.val))
    [] OTHER                 -> o

\* worker.js 150-155: new AsyncFunction('"use strict";\n' + code), then
\* result = await runner(): the value the body returns.
BlockAttempt(id, p, c) ==
  IF p.syn = "invalid" THEN Fail(id, Err(1))
  ELSE IF p.fault = "sync"
    THEN Then(Logs(id, c, p.logs), p.logs, Fail(id, p.val))
  ELSE IF p.syn = "fnbody" /\ p.wait
    THEN Suspended(Logs(id, c, p.logs), "block", p.logs)
  ELSE IF p.syn = "script"
    \* a script has no return and awaits nothing: the body returns
    \* undefined at once, a promise it made is left on its own
    THEN LET o == Finish(id, Undefined, "block") IN
         Then(Logs(id, c, p.logs), p.logs,
              [o EXCEPT !.rej = IF p.wait /\ p.fault = "async"
                                  THEN <<p.val>> \o o.rej ELSE o.rej])
  ELSE Then(Logs(id, c, p.logs), p.logs, Finish(id, p.ret, "block"))

\* worker.js 147-149: result = await eval(code); any throw goes to 150.
ExprAttempt(id, p, c) ==
  IF p.syn # "script" THEN BlockAttempt(id, p, c)     \* SyntaxError, nothing ran
  ELSE IF p.fault = "sync"
    THEN Then(Logs(id, c, p.logs), p.logs, BlockAttempt(id, p, c + p.logs))
  ELSE IF p.wait
    THEN Suspended(Logs(id, c, p.logs), "expr", p.logs)
  ELSE Then(Logs(id, c, p.logs), p.logs, Finish(id, p.val, "expr"))

\* the promise awaited at worker.js 149 settled
ResumeExpr(id, p, c) ==
  IF p.fault = "async"
    THEN Then(Logs(id, c, p.logsAfter), p.logsAfter,
              BlockAttempt(id, p, c + p.logsAfter))
    ELSE Then(Logs(id, c, p.logsAfter), p.logsAfter, Finish(id, p.val, "expr"))

\* the promise awaited inside runner() (worker.js 154) settled
ResumeBlock(id, p, c) ==
  IF p.fault = "async"
    THEN Then(Logs(id, c, p.logsAfter), p.logsAfter, Fail(id, p.val))
    ELSE Then(Logs(id, c, p.logsAfter), p.logsAfter, Finish(id, p.ret, "block"))


-----------------------------------------------------------------------------
(* .load: a specifier is the text pad \o pre \o name: pad is blanks in     *)
(* front of it, pre what the tests of resolveSpec look at (a scheme, "/",  *)
(* "./", "../" or nothing), name the rest, without blanks at its end.      *)

LoadSpec(pre, name) == [pad |-> "", pre |-> pre, name |-> name]

\* the same specifier with a blank in front
Padded(spec) == [spec EXCEPT !.pad = " "]

\* String(spec)
SpecText(spec) == spec.pad \o spec.pre \o spec.name

\* map[name] as text, for const map = {...} (worker.js 129-137): the own
\* entries of the object literal first, then what names inherited from
\* Object.prototype give; "" stands for undefined
AliasPath(name) ==
  CASE name = "lodash"     -> "lodash@latest/lodash.min.js"
    [] name = "dayjs"      -> "dayjs@latest/dayjs.min.js"
    [] name = "rxjs"       -> "rxjs@7/dist/bundles/rxjs.umd.min.js"
    [] name = "ramda"      -> "ramda@latest/dist/ramda.min.js"
    [] name = "underscore" -> "underscore@latest/underscore-min.js"
    [] name = "decimal.js" -> "decimal.js@latest/decimal.min.js"
    [] name = "papaparse"  -> "papaparse@latest/papaparse.min.js"
    [] name = "constructor" -> "function Object() { [native code] }"
    [] name = "toString"    -> "function toString() { [native code] }"
    [] name = "__proto__"   -> "[object Object]"
    [] OTHER               -> ""

\* s = String(spec).trim(): the blanks in front are dropped
Trimmed(spec) == spec.pre \o spec.name

\* resolveSpec (worker.js 122-140)
ResolveSpec(spec) ==
  IF spec.pre \in {"http://", "https://", "HTTP://", "HTTPS://", "/", "./", "../"}
    THEN Trimmed(spec)
    ELSE "https://cdn.jsdelivr.net/npm/"
           \o (IF AliasPath(Trimmed(spec)) # "" THEN AliasPath(Trimmed(spec))
               ELSE Trimmed(spec) \o "@latest")

\* The resolveSpec harness: resolveSpec applied to specifiers made of every
\* prefix and a choice of names, with and without a blank in front.
SpecPrefixes == {"", "http://", "https://", "HTTP://", "HTTPS://", "/", "./", "../", "ftp://"}

AliasNames ==
  {"lodash", "dayjs", "rxjs", "ramda", "underscore", "decimal.js", "papaparse"}

SpecNames ==
  AliasNames \cup {"some-unknown-pkg", "left-pad", "constructor", "toString", "__proto__"}

ResInit ==
  /\ \E pre \in SpecPrefixes : \E name \in SpecNames :
       rspec \in {LoadSpec(pre, name), Padded(LoadSpec(pre, name))}
  /\ rurl = ""
  /\ rpc = "input"

\* resolveSpec(rspec)
Resolve ==
  /\ rpc = "input"
  /\ rurl' = ResolveSpec(rspec)
  /\ rpc' = "done"
  /\ UNCHANGED rspec

LoadSpecs == { LoadSpec("", "lodash"), LoadSpec("https://", "example.org/lib.js") }

-----------------------------------------------------------------------------
(* The page and the sandbox instance.                                      *)

\* submissions per run
MaxSubs == 2
\* resets per run
MaxResets == 1
\* .load commands per run
MaxLoads == 1
\* .help, .clear, .history and unknown commands per run
MaxCmds == 2
\* entries the history keeps (part_001 184)
HistoryCap == 300

NoProg == Prog("", "invalid", 0, "none", FALSE, 0, Undefined, Undefined)
NoSpec == LoadSpec("", "")

\* a line of #output: kind and text as rendered, ms whether the elapsed
\* time is shown; id and at are not rendered: the id of the message the
\* line came from and the Worker object that was current then
Line(kind, text, ms, id, at) ==
  [kind |-> kind, text |-> text, ms |-> ms, id |-> id, at |-> at]

Stamp(msgs) == [i \in DOMAIN msgs |-> [msgs[i] EXCEPT !.gen = worker]]

IsTerminal(m) == m.type \in {"result", "error"} /\ m.id # 0

FmtIdle ==
  /\ fheap = <<>>
  /\ finput = Undefined
  /\ fres = NoResult
  /\ fpc = "idle"

ResIdle ==
  /\ rspec = NoSpec
  /\ rurl = ""
  /\ rpc = "idle"

TblIdle ==
  /\ theap = <<>>
  /\ tdata = Undefined
  /\ tcols = <<>>
  /\ tmsg = NoTable
  /\ tpc = "idle"

\* no harness is in use
HarnessIdle == FmtIdle /\ ResIdle /\ TblIdle

\* page load: worker = createWorker(), pending = new Map()
SysInit ==
  /\ worker = 1
  /\ pending = {}
  /\ status = ""
  /\ out = <<>>
  /\ subs = <<>>
  /\ wstate = "loading"
  /\ cmds = 0
  /\ inbox = <<>>
  /\ evals = {}
  /\ rejections = <<>>
  /\ chan = <<>>
  /\ emitted = <<>>
  /\ calls = <<>>
  /\ settled = {}
  /\ readySeen = {}
  /\ discarded = {}
  /\ loads = 0

\* history = JSON.parse(localStorage.getItem(HISTORY_KEY) || "[]") on a
\* first visit
Init ==
  /\ SysInit
  /\ stored = <<>>
  /\ history = stored
  /\ HarnessIdle

\* history.push followed by slice(0, 300): the oldest entries are kept
HistoryPushKeepsOldest(h, code) ==
  IF Len(h) + 1 > HistoryCap THEN SubSeq(Append(h, code), 1, HistoryCap)
  ELSE Append(h, code)

\* history.push(code); if (history.length > 300) history = history.slice(-300)
HistoryPush(h, code) ==
  IF Len(h) + 1 > HistoryCap
    THEN SubSeq(Append(h, code), Len(h) + 2 - HistoryCap, Len(h) + 1)
    ELSE Append(h, code)

\* run(code) for text that is neither blank nor a command (part_001 177-192)
Run(p) ==
  /\ Len(subs) < MaxSubs
  /\ history' = HistoryPush(history, p.src)
  /\ LET id == Len(subs) + 1 IN
       /\ subs' = Append(subs, [prog |-> p, gen |-> worker])
       /\ pending' = pending \cup {id}
       /\ inbox' = Append(inbox, [type |-> "eval", id |-> id, prog |-> p, spec |-> NoSpec])
       /\ calls' = Append(calls, 0)
  /\ status' = "running ..."
  /\ UNCHANGED <<worker, out, wstate, evals, rejections, chan, emitted, settled,
                 readySeen, discarded, loads, cmds, stored, harnessVars>>

\* run(code) for a text of blanks only (part_001 178)
RunBlank == UNCHANGED vars

\* esc (part_001 75-80) for the texts the model uses: the program texts
\* with "=>" are the only ones holding one of & < >
Esc(text) ==
  CASE text = "console.log('hello'); await new Promise(r => setTimeout(r, 100)); console.log('hello'); return 2"
         -> "console.log('hello'); await new Promise(r =&gt; setTimeout(r, 100)); console.log('hello'); return 2"
    [] text = "new Promise(r => setTimeout(() => r(2), 100))"
         -> "new Promise(r =&gt; setTimeout(() =&gt; r(2), 100))"
    [] text = "new Promise((_, r) => setTimeout(() => r(new Error('boom')), 100))"
         -> "new Promise((_, r) =&gt; setTimeout(() =&gt; r(new Error('boom')), 100))"
    [] OTHER -> text

\* a command that only writes to #output or clears it
Command ==
  /\ UNCHANGED <<worker, pending, status, subs, history, workerVars, emitted, calls,
                 settled, readySeen, discarded, loads, stored, harnessVars>>

\* commandHelp (part_001 131-140)
HelpText ==
  "<pre>.help                      show this help\n"
    \o ".clear                     clear output\n"
    \o ".reset                     reset sandbox\n"
    \o ".load &lt;url|name&gt;           load script into sandbox (UMD/CommonJS compatible)\n"
    \o ".history                   print input history</pre>"

\* handleCommand, case ".help" (part_001 145-147)
CmdHelp ==
  /\ cmds < MaxCmds
  /\ cmds' = cmds + 1
  /\ out' = Append(out, Line("INFO", HelpText, FALSE, 0, worker))
  /\ Command

\* handleCommand, case ".clear" (part_001 148-150)
CmdClear ==
  /\ out' = <<>>
  /\ UNCHANGED cmds
  /\ Command

\* the Clear button (part_001 196)
ClearClick ==
  /\ out' = <<>>
  /\ UNCHANGED cmds
  /\ Command

\* String(i).padStart(3, " ")
PadStart3(i) ==
  (IF i < 10 THEN "  " ELSE IF i < 100 THEN " " ELSE "") \o ToString(i)

\* history.map((h, i) => ...).join("\n") for the entries lo..hi, escaped
RECURSIVE HistoryLines(_, _, _)
HistoryLines(h, lo, hi) ==
  IF lo > hi THEN ""
  ELSE IF lo = hi THEN PadStart3(lo) \o "  " \o Esc(h[lo])
  ELSE HistoryLines(h, lo, (lo + hi) \div 2) \o "\n"
         \o HistoryLines(h, ((lo + hi) \div 2) + 1, hi)

\* handleCommand, case ".history" (part_001 166-170)
CmdHistory ==
  /\ cmds < MaxCmds
  /\ cmds' = cmds + 1
  /\ out' = Append(out, Line("INFO", "<pre>" \o HistoryLines(history, 1, Len(history))
                                      \o "</pre>", FALSE, 0, worker))
  /\ Command

\* handleCommand, default case (part_001 171-173), for the command ".foo"
CmdUnknown ==
  /\ cmds < MaxCmds
  /\ cmds' = cmds + 1
  /\ out' = Append(out, Line("ERROR", "unknown command: .foo", FALSE, 0, worker))
  /\ Command

\* handleCommand, case ".load" without a specifier (part_001 158-161)
CmdLoadUsage ==
  /\ cmds < MaxCmds
  /\ cmds' = cmds + 1
  /\ out' = Append(out, Line("ERROR", "usage: .load <url|name>", FALSE, 0, worker))
  /\ Command

\* handleCommand, case ".load" with a specifier (part_001 156-165)
CmdLoad(spec) ==
  /\ loads < MaxLoads
  /\ loads' = loads + 1
  /\ inbox' = Append(inbox, [type |-> "load", id |-> 0, prog |-> NoProg, spec |-> spec])
  /\ status' = "loading " \o SpecText(spec) \o " ..."
  /\ UNCHANGED <<worker, pending, out, subs, history, wstate, evals, rejections,
                 chan, emitted, calls, settled, readySeen, discarded, cmds, stored,
                 harnessVars>>

\* a reset that leaves the messages the old instance already posted on
\* their way to the page
TerminateKeepsPosted ==
  /\ inbox' = <<>>
  /\ evals' = {}
  /\ rejections' = <<>>
  /\ chan' = chan
  /\ discarded' = discarded \cup {chan[i].id : i \in {j \in DOMAIN chan : IsTerminal(chan[j])}}

\* worker.terminate(): the instance stops where it is, the messages queued
\* to it and the messages it posted that the page has not handled yet are
\* dropped.
Terminate ==
  /\ inbox' = <<>>
  /\ evals' = {}
  /\ rejections' = <<>>
  /\ chan' = <<>>
  /\ discarded' = discarded \cup {chan[i].id : i \in {j \in DOMAIN chan : IsTerminal(chan[j])}}

\* worker.terminate(); worker = createWorker(); setStatus("sandbox reset")
Reset ==
  /\ worker <= MaxResets
  /\ Terminate
  /\ worker' = worker + 1
  /\ wstate' = "loading"
  /\ status' = "sandbox reset"
  /\ emitted' = <<>>
  /\ settled' = {}
  /\ UNCHANGED <<pending, out, subs, history, calls, readySeen, loads, cmds, stored,
                 harnessVars>>

\* handleCommand, case ".reset" (part_001 151-155)
CmdReset == Reset

\* the Reset button (part_001 197-201)
ResetClick == Reset

\* w.onmessage (part_001 19-56) and w.onerror (57-59) for the oldest
\* message not handled yet
HostDeliver ==
  /\ chan # <<>>
  /\ LET m == Head(chan) IN
       /\ chan' = Tail(chan)
       /\ CASE m.type = "ready" ->
                 /\ status' = "sandbox ready"
                 /\ readySeen' = readySeen \cup {m.gen}
                 /\ UNCHANGED <<pending, out>>
            [] m.type = "console" ->
                 /\ out' = Append(out, Line("LOG", m.formatted, FALSE, m.id, worker))
                 /\ UNCHANGED <<pending, status, readySeen>>
            [] m.type = "result" ->
                 IF m.id \in pending
                   THEN /\ out' = Append(out, Line("RESULT", m.formatted, TRUE, m.id, worker))
                        /\ pending' = pending \ {m.id}
                        /\ status' = "done in <ms> ms"
                        /\ UNCHANGED readySeen
                   ELSE /\ out' = Append(out, Line("RESULT", m.formatted, FALSE, m.id, worker))
                        /\ UNCHANGED <<pending, status, readySeen>>
            [] m.type = "error" ->
                 /\ out' = Append(out, Line("ERROR", m.formatted, FALSE, m.id, worker))
                 /\ status' = "error"
                 /\ UNCHANGED <<pending, readySeen>>
            [] OTHER ->      \* the Worker object's error event
                 /\ out' = Append(out, Line("ERROR", m.formatted, FALSE, m.id, worker))
                 /\ UNCHANGED <<pending, status, readySeen>>
  /\ UNCHANGED <<worker, subs, history, wstate, inbox, evals, rejections, emitted,
                 calls, settled, discarded, loads, cmds, stored, harnessVars>>

\* the instance posts msgs
Post(msgs) ==
  /\ chan' = chan \o Stamp(msgs)
  /\ emitted' = emitted \o Stamp(msgs)

\* a worker script that ends without send("ready", {})
WorkerStartSilent ==
  /\ wstate = "loading"
  /\ wstate' = "ready"
  /\ UNCHANGED <<hostVars, inbox, evals, rejections, chan, emitted, calls, settled,
                 readySeen, discarded, loads, cmds, stored, harnessVars>>

\* the script of the instance runs to its end: send("ready", {}) (worker.js 178)
WorkerStart ==
  /\ wstate = "loading"
  /\ wstate' = "ready"
  /\ Post(<<Msg("ready", 0, "", 0, 0, "")>>)
  /\ UNCHANGED <<hostVars, inbox, evals, rejections, calls, settled, readySeen,
                 discarded, loads, cmds, stored, harnessVars>>

\* a load branch that says nothing when importScripts throws
LoadOutcomeSilentFailure(spec, ok) ==
  IF ok THEN <<Msg("console", 0, "loaded: " \o ResolveSpec(spec), 0, 0, "")>>
        ELSE <<>>

\* the load branch of self.onmessage (worker.js 166-175): what it posts
\* when importScripts(url) returns (ok) and when it throws
LoadOutcome(spec, ok) ==
  IF ok THEN <<Msg("console", 0, "loaded: " \o ResolveSpec(spec), 0, 0, "")>>
        ELSE <<Msg("error", 0, "load failed: " \o FormatTop(SysHeap, Err(3)).out,
                   0, 0, "")>>

\* the effect of one task of evalCode(id, p) that went as o
Applied(o, id, p, rest) ==
  /\ Post(o.msgs)
  /\ evals' = IF o.susp = "none" THEN rest
              ELSE rest \cup {[id |-> id, prog |-> p, stage |-> o.susp]}
  /\ rejections' = rejections \o o.rej
  /\ calls' = [calls EXCEPT ![id] = @ + o.ncalls]
  /\ settled' = IF o.susp = "none" THEN settled \cup {id} ELSE settled

Apply(task, id, p, rest) == Applied(Settle(id, task), id, p, rest)

\* self.onmessage (worker.js 162-176) for the oldest queued message, up to
\* the first await that has to wait for a later task
WorkerDispatch ==
  /\ wstate = "ready"
  /\ inbox # <<>>
  /\ inbox' = Tail(inbox)
  /\ LET m == Head(inbox) IN
       \/ /\ m.type = "eval"
          /\ Apply(ExprAttempt(m.id, m.prog, calls[m.id]), m.id, m.prog, evals)
       \/ /\ m.type = "load"
          /\ \E ok \in BOOLEAN :     \* importScripts(url) returns or throws
               Post(LoadOutcome(m.spec, ok))
          /\ UNCHANGED <<evals, rejections, calls, settled>>
  /\ UNCHANGED <<hostVars, wstate, readySeen, discarded, loads, cmds, stored, harnessVars>>

\* the promise a suspended evaluation waits on settles: evalCode goes on
WorkerResume ==
  /\ \E e \in evals :
       Apply(IF e.stage = "expr" THEN ResumeExpr(e.id, e.prog, calls[e.id])
                                 ELSE ResumeBlock(e.id, e.prog, calls[e.id]),
             e.id, e.prog, evals \ {e})
  /\ UNCHANGED <<hostVars, wstate, inbox, readySeen, discarded, loads, cmds, stored, harnessVars>>

\* an unhandledrejection handler that reports the rejection as the error
\* of the first submission
UnhandledBlamesFirst(r) ==
  <<Msg("error", 1, "Unhandled Rejection: " \o r.out, 0, 0, "")>>

\* what the unhandledrejection event leads to, r being formatValue(e.reason)
Unhandled(r) ==
  IF r.thrown = NoThrow
    THEN <<Msg("error", 0, "Unhandled Rejection: " \o r.out, 0, 0, "")>>
    ELSE <<Msg("error", 0, "Uncaught @ assets/js/worker.js", 0, 0, ""),
           Msg("uncaught", 0, "Uncaught @ assets/js/worker.js", 0, 0, "")>>

\* self.onunhandledrejection (worker.js 114-116) for the oldest rejection;
\* when formatValue(e.reason) throws there, the throw is an uncaught error
\* of the instance: self.onerror (117-119) posts it and the Worker object
\* of the page gets its error event
WorkerUnhandled ==
  /\ rejections # <<>>
  /\ rejections' = Tail(rejections)
  /\ Post(Unhandled(FormatTop(SysHeap, Head(rejections))))
  /\ UNCHANGED <<hostVars, wstate, inbox, evals, calls, settled, readySeen,
                 discarded, loads, cmds, stored, harnessVars>>

Next ==
  \/ \E p \in Programs : Run(p)
  \/ \E spec \in LoadSpecs : CmdLoad(spec)
  \/ CmdReset
  \/ ResetClick
  \/ HostDeliver
  \/ WorkerStart
  \/ WorkerDispatch
  \/ WorkerResume
  \/ WorkerUnhandled

Spec == Init /\ [][Next]_vars

\* The page's event loop handles every message posted to it and the
\* instance's script, once started, runs to its end.
FairSpec == Spec /\ WF_vars(HostDeliver) /\ WF_vars(WorkerStart)

-----------------------------------------------------------------------------
(* The formatter harness as a specification.                               *)

SysIdle ==
  /\ worker = 0
  /\ pending = {}
  /\ status = ""
  /\ out = <<>>
  /\ subs = <<>>
  /\ wstate = "none"
  /\ inbox = <<>>
  /\ evals = {}
  /\ rejections = <<>>
  /\ chan = <<>>
  /\ emitted = <<>>
  /\ calls = <<>>
  /\ settled = {}
  /\ readySeen = {}
  /\ discarded = {}
  /\ loads = 0
  /\ cmds = 0
  /\ stored = <<>>
  /\ history = <<>>

InitFmt == FmtInit /\ ResIdle /\ TblIdle /\ SysIdle

NextFmt == Format /\ UNCHANGED <<resVars, tblVars, sysVars>>

SpecFmt == InitFmt /\ [][NextFmt]_vars


(* The page's input handlers on their own: what run() and the buttons do   *)
(* to the history, whatever localStorage held at page load.  The instance  *)
(* is not scheduled, the history being the page's alone; .load with a      *)
(* specifier and .reset, which talk to the instance, are part of Spec.     *)

\* a history a former visit left in localStorage: n texts
StoredHistory(n) == [i \in 1..n |-> "old " \o ToString(i)]

InitHist ==
  /\ SysInit
  /\ \E n \in {0} \cup ((HistoryCap - MaxSubs)..HistoryCap) : stored = StoredHistory(n)
  /\ history = stored
  /\ HarnessIdle

\* the texts typed: what a text does when run is of no account here
HistPrograms ==
  {p \in Programs :
     p.src \in {"2 ** 10", "}{", "new Promise(r => setTimeout(() => r(2), 100))"}}

NextHist ==
  \/ \E p \in HistPrograms : Run(p)
  \/ RunBlank
  \/ CmdHelp
  \/ CmdClear
  \/ ClearClick
  \/ CmdHistory
  \/ CmdUnknown
  \/ CmdLoadUsage

SpecHist == InitHist /\ [][NextHist]_vars

(* The console.table harness as a specification.                           *)

InitTable == TblInit /\ FmtIdle /\ ResIdle /\ SysIdle

NextTable == Table /\ UNCHANGED <<fmtVars, resVars, sysVars>>

SpecTable == InitTable /\ [][NextTable]_vars

(* The resolveSpec harness as a specification.                             *)

InitResolve == ResInit /\ FmtIdle /\ TblIdle /\ SysIdle

NextResolve == Resolve /\ UNCHANGED <<fmtVars, tblVars, sysVars>>

SpecResolve == InitResolve /\ [][NextResolve]_vars

-----------------------------------------------------------------------------
(* Properties of the page and the sandbox instance.                        *)

\* where the current instance posted a result or error carrying id
TerminalsOf(id) ==
  {i \in DOMAIN emitted : IsTerminal(emitted[i]) /\ emitted[i].id = id}

\* where the current instance posted a console message of submission id
ConsoleOf(id) ==
  {i \in DOMAIN emitted : emitted[i].type = "console" /\ emitted[i].sub = id}

(* C1: every submission whose evaluation has settled on the current        *)
(* instance got exactly one result or error carrying its id from that      *)
(* instance, whatever its code produced or threw.                          *)
C1_ExactlyOneTerminal ==
  \A id \in settled : Cardinality(TerminalsOf(id)) = 1

(* C2: once the page has handled a result or an error carrying an id, the  *)
(* pending map holds no entry for that id.                                 *)
C2_HandledEntryRemoved ==
  \A i \in DOMAIN out :
    (out[i].kind \in {"RESULT", "ERROR"} /\ out[i].id # 0) => out[i].id \notin pending

(* C3: a reset (the .reset command or the Reset button) leaves the pending *)
(* map empty.                                                              *)
C3_ResetEmptiesPending ==
  [][worker' # worker => pending' = {}]_vars

(* C4: every result or error carrying an id that the page handles comes    *)
(* from the instance the submission was sent to: after a reset no event of *)
(* a submission made before it is handled.                                 *)
C4_NoStaleTerminal ==
  \A i \in DOMAIN out :
    out[i].id # 0 => subs[out[i].id].gen = out[i].at

\* a reset dropped the result or error of an earlier submission while it
\* was on its way, and the page has gone on to handle the new instance's
\* "ready"
C4_Witness ==
  \E id \in discarded :
    /\ subs[id].gen < worker
    /\ worker \in readySeen
    /\ \A i \in DOMAIN out : out[i].id # id

\* an instance that has run its script has posted "ready", once, as its
\* first message
ReadyFirstOnce ==
  /\ (wstate = "ready") <=> (emitted # <<>>)
  /\ \A i \in DOMAIN emitted : (emitted[i].type = "ready") <=> (i = 1)

(* C5: every Worker object the page creates (at load and at each reset)    *)
(* has its "ready" handled by the page unless a later reset replaces it    *)
(* first, and every instance posts "ready" exactly once, before anything   *)
(* else.                                                                   *)
C5_ReadyAfterReset ==
  /\ \A g \in 1..(MaxResets + 1) :
       (worker = g) ~> (g \in readySeen \/ worker # g)
  /\ []ReadyFirstOnce

\* the page handled the "ready" of an instance created by a reset
C5_Witness == worker > 1 /\ worker \in readySeen

(* C6: within one instance at most one evaluation is under way: a later    *)
(* message is not dispatched while an earlier evaluation is suspended.     *)
C6_OneBusy == Cardinality(evals) <= 1

(* C7: a result produced by the block fallback carries the formatted value *)
(* of the last expression of the submitted text.                           *)
C7_BlockCompletionValue ==
  \A i \in DOMAIN emitted :
    (emitted[i].type = "result" /\ emitted[i].via = "block")
      => emitted[i].formatted = FormatTop(SysHeap, subs[emitted[i].id].prog.val).out

(* C8: the console messages of a submission are on the channel as soon as  *)
(* the calls are made, in call order, and before the submission's result   *)
(* or error.                                                               *)
C8_DiagnosticsEagerInOrder ==
  \A id \in DOMAIN subs :
    subs[id].gen = worker =>
      /\ Cardinality(ConsoleOf(id)) = calls[id]
      /\ \A i, j \in ConsoleOf(id) : i < j => emitted[i].n < emitted[j].n
      /\ \A i \in ConsoleOf(id) : \A t \in TerminalsOf(id) : i < t

\* a submission that logged before and after a wait and then got its result
C8_Witness ==
  \E id \in settled :
    /\ subs[id].prog.wait
    /\ calls[id] >= 2
    /\ TerminalsOf(id) # {}

\* the text evaluates to a value: it parses and nothing it runs throws or
\* rejects
Evaluates(p) == p.syn # "invalid" /\ p.fault = "none"

(* C12: a throw inside formatValue never leaves it: a submission whose     *)
(* code evaluated to a value gets a result, never an error, even when a    *)
(* member of that value throws on being read.                              *)
C12_FormatFaultNeutralized ==
  \A id \in settled :
    Evaluates(subs[id].prog) =>
      /\ TerminalsOf(id) # {}
      /\ \A i \in TerminalsOf(id) : emitted[i].type = "result"

(* C17: the code of a submission is run once: no console.log call of the   *)
(* text is performed twice, in particular not when the expression attempt  *)
(* fails while running.                                                    *)
C17_NoSecondExecution ==
  \A id \in DOMAIN subs :
    calls[id] <= subs[id].prog.logs + subs[id].prog.logsAfter

\* the step appended messages to those the instance has posted
Posted == SubSeq(emitted', Len(emitted) + 1, Len(emitted'))

PostedOnly == Len(emitted') >= Len(emitted) /\ SubSeq(emitted', 1, Len(emitted)) = emitted

\* the page handles a message that carries no id
HandlesUntargeted == chan # <<>> /\ chan' = Tail(chan) /\ Head(chan).id = 0

\* the instance dispatches a load message
DispatchesLoad ==
  /\ inbox # <<>> /\ Head(inbox).type = "load"
  /\ inbox' = Tail(inbox) /\ worker' = worker

LoadFailedText == "load failed: " \o FormatTop(SysHeap, Err(3)).out

ReportsRejection ==
  rejections # <<>> /\ rejections' = Tail(rejections) /\ worker' = worker

(* C18: a rejection nobody handles is reported by messages without an id;  *)
(* reporting it leaves the state of the instance and the pending map as    *)
(* they were, adds no result or error to any submission, and the page      *)
(* handles a message without an id without touching the pending map.       *)
C18_DetachedFaultUntargeted ==
  [][ /\ ReportsRejection =>
           /\ PostedOnly /\ Len(Posted) >= 1
           /\ \A i \in DOMAIN Posted :
                Posted[i].id = 0 /\ Posted[i].type \in {"error", "uncaught"}
           /\ UNCHANGED <<wstate, inbox, evals, settled, pending>>
      /\ HandlesUntargeted => pending' = pending ]_vars

DetachedText == "Unhandled Rejection: " \o FormatTop(SysHeap, Err(3)).out

\* the page has shown the result of a submission and, after it, the
\* rejection of the promise that submission left behind, while another
\* submission is still in flight on the same instance
C18_Witness ==
  \E i, j \in DOMAIN out : \E other \in pending :
    /\ i < j
    /\ out[i].kind = "RESULT" /\ out[i].id # 0 /\ out[i].id # other
    /\ subs[out[i].id].prog.fault = "async"
    /\ out[j].kind = "ERROR" /\ out[j].id = 0 /\ out[j].text = DetachedText
    /\ subs[other].gen = worker
    /\ other \notin settled

\* the texts run() accepted as code, those of former visits first
Accepted == stored \o [i \in DOMAIN subs |-> subs[i].prog.src]

(* C16: the history holds at most 300 texts: the last 300 (all, when there *)
(* are fewer) of the texts accepted as code, oldest first; blank input,    *)
(* commands and buttons leave it as it is.                                 *)
C16_HistoryLastTexts ==
  /\ Len(history) <= 300
  /\ history = IF Len(Accepted) > 300
                 THEN SubSeq(Accepted, Len(Accepted) - 299, Len(Accepted))
                 ELSE Accepted

\* a full history took two more texts, with a command in between or
\* after: the two oldest texts are gone
C16_Witness ==
  /\ Len(stored) = 300
  /\ Len(subs) = 2
  /\ cmds > 0
  /\ history[299] = subs[1].prog.src
  /\ history[1] = stored[3]

-----------------------------------------------------------------------------
(* Properties of formatValue.                                              *)

(* C9: whenever formatValue reaches a composite that is an ancestor of     *)
(* itself, it returns a circular marker there and does not go into it      *)
(* again.                                                                  *)
C9_CircularMarked ==
  fpc = "done" => \A v \in fres.visits : v.onPath => v.how = "circular"

(* C11: formatValue enumerates the members of composites at depths 0, 1   *)
(* and 2 only: a composite of any kind reached at a depth greater than 2   *)
(* is rendered without enumerating its members, as the placeholder of its  *)
(* kind (or as a circular marker when it was met before).                  *)
C11_ThreeLevels ==
  fpc = "done" =>
    \A v \in fres.visits :
      /\ v.how = "expand" => v.depth \in {0, 1, 2}
      /\ v.depth > 2 => v.how \in {"collapse", "circular"}
      /\ v.how = "collapse" => v.depth = 3

\* four nested composites without a cycle: the innermost was reached at
\* depth 3 and rendered as a placeholder
C11_Witness ==
  /\ fpc = "done"
  /\ Len(fheap) = 4
  /\ fheap[4].elems[1].val.k = "num"
  /\ \E v \in fres.visits : v.addr = 4 /\ v.depth = 3 /\ v.how = "collapse"

(* C20: formatValue returns a circular marker only at a composite that is  *)
(* an ancestor of itself; a composite referenced from two sibling members  *)
(* is expanded at both.                                                    *)
C20_MarkerOnlyOnCycle ==
  fpc = "done" => \A v \in fres.visits : v.how = "circular" => v.onPath

\* a composite holding numbers only
IsFlat(o) == \A i \in DOMAIN o.elems : o.elems[i].val.k = "num" /\ o.elems[i].key.k # "ref"

\* member m of a flat composite as the collection conventions render it
FlatItem(tag, m) ==
  CASE tag = "Map"    -> ToString(m.key.v) \o " => " \o ToString(m.val.v)
    [] tag = "Object" -> "\"" \o StrText(m.key.v) \o "\": " \o ToString(m.val.v)
    [] OTHER          -> ToString(m.val.v)

RECURSIVE FlatItems(_, _, _, _)
FlatItems(tag, elems, lo, hi) ==
  IF lo > hi THEN ""
  ELSE IF lo = hi THEN FlatItem(tag, elems[lo])
  ELSE FlatItems(tag, elems, lo, (lo + hi) \div 2) \o ", "
         \o FlatItems(tag, elems, ((lo + hi) \div 2) + 1, hi)

\* the first Limit members in order, then one marker if there are more
FirstFifty(o) ==
  IF Len(o.elems) > Limit
    THEN FlatItems(o.tag, o.elems, 1, Limit) \o ", ..."
    ELSE FlatItems(o.tag, o.elems, 1, Len(o.elems))

ExpectedFlat(o) ==
  CASE o.tag = "Array"  -> "Array(" \o ToString(Len(o.elems)) \o ") [" \o FirstFifty(o) \o "]"
    [] o.tag = "Object" -> "{ " \o FirstFifty(o) \o " }"
    [] OTHER -> o.tag \o "(" \o ToString(Len(o.elems)) \o ") { " \o FirstFifty(o) \o " }"

(* C10: a collection of more than 50 members is rendered as its first 50   *)
(* members in order followed by one truncation marker, a collection of at  *)
(* most 50 members as all of them and no marker.                           *)
C10_FirstFiftyThenMarker ==
  (fpc = "done" /\ Len(fheap) = 1 /\ IsFlat(fheap[1]))
    => fres.out = ExpectedFlat(fheap[1])

-----------------------------------------------------------------------------
(* Properties of resolveSpec.                                              *)

CdnBase == "https://cdn.jsdelivr.net/npm/"

\* the fixed path of each alias
AliasTable(name) ==
  CASE name = "lodash"     -> "lodash@latest/lodash.min.js"
    [] name = "dayjs"      -> "dayjs@latest/dayjs.min.js"
    [] name = "rxjs"       -> "rxjs@7/dist/bundles/rxjs.umd.min.js"
    [] name = "ramda"      -> "ramda@latest/dist/ramda.min.js"
    [] name = "underscore" -> "underscore@latest/underscore-min.js"
    [] name = "decimal.js" -> "decimal.js@latest/decimal.min.js"
    [] name = "papaparse"  -> "papaparse@latest/papaparse.min.js"

\* absolute http(s) locators, root-relative and relative paths
IsLocator(spec) ==
  spec.pre \in {"http://", "https://", "HTTP://", "HTTPS://", "/", "./", "../"}

(* C14: for a specifier without blanks around it resolveSpec returns the   *)
(* specifier itself when it is an absolute http(s) locator or a            *)
(* root-relative or relative path, the CDN locator with the alias's fixed  *)
(* path when it is a name of the alias table, and the CDN locator ending   *)
(* in <name>@latest for every other name.                                  *)
C14_ResolveSpec ==
  (rpc = "done" /\ rspec.pad = "") =>
    rurl = IF IsLocator(rspec) THEN SpecText(rspec)
           ELSE IF rspec.pre = "" /\ rspec.name \in AliasNames
             THEN CdnBase \o AliasTable(rspec.name)
           ELSE CdnBase \o SpecText(rspec) \o "@latest"

-----------------------------------------------------------------------------
(* Properties of console.table.                                            *)

\* the keys of the object v in order, none for other values
KeyNames(v) ==
  IF v.k = "ref" /\ theap[v.v].tag = "Object"
    THEN [i \in DOMAIN theap[v.v].elems |-> StrText(theap[v.v].elems[i].key.v)]
    ELSE <<>>

\* the member of the object v called name, undefined when it has none
MemberNamed(v, name) ==
  IF \E i \in DOMAIN KeyNames(v) : KeyNames(v)[i] = name
    THEN theap[v.v].elems[CHOOSE i \in DOMAIN KeyNames(v) : KeyNames(v)[i] = name].val
    ELSE Undefined

\* seq without the repetitions of a name
RECURSIVE FirstSeen(_)
FirstSeen(seq) ==
  IF seq = <<>> THEN <<>>
  ELSE LET front == FirstSeen(SubSeq(seq, 1, Len(seq) - 1))
           last == seq[Len(seq)]
       IN IF \E i \in DOMAIN front : front[i] = last THEN front ELSE Append(front, last)

\* the keys of the rows elems[from..], each row of a keyed input starting
\* with "(index)"
RECURSIVE AllKeys(_, _, _)
AllKeys(elems, keyed, from) ==
  IF from > Len(elems) THEN <<>>
  ELSE (IF keyed THEN <<"(index)">> ELSE <<>>) \o KeyNames(elems[from].val)
         \o AllKeys(elems, keyed, from + 1)

\* a column list was given
ColumnsSupplied == tcols.kind = "array" /\ tcols.names # <<>>

\* console.table was given an array, a plain object or a Map and posted
\* its message
TableDone == tpc = "done" /\ tmsg.thrown = NoThrow /\ tdata.k = "ref"

(* C13: the headers of the table message are the column list when one is   *)
(* given, else the keys of all rows in the order first seen; the message   *)
(* has one row per input row (per entry of a keyed input) in input order,  *)
(* each row one cell per header holding the formatted member of that name; *)
(* the rows of a keyed input hold the formatted key under "(index)".       *)
C13_TableShape ==
  TableDone =>
    LET elems == theap[tdata.v].elems
        keyed == theap[tdata.v].tag # "Array"
    IN /\ tmsg.headers = IF ColumnsSupplied THEN tcols.names
                         ELSE FirstSeen(AllKeys(elems, keyed, 1))
       /\ Len(tmsg.rows) = Len(elems)
       /\ \A r \in DOMAIN elems :
            /\ Len(tmsg.rows[r]) = Len(tmsg.headers)
            /\ \A c \in DOMAIN tmsg.headers :
                 IF keyed /\ tmsg.headers[c] = "(index)"
                   THEN tmsg.rows[r][c] = FormatTop(theap, elems[r].key).out
                   ELSE KeyNames(elems[r].val) # <<>> =>
                          tmsg.rows[r][c] =
                            FormatTop(theap, MemberNamed(elems[r].val, tmsg.headers[c])).out

(* C19: the headers of a table message are pairwise distinct.              *)
C19_HeadersDistinct ==
  tpc = "done" =>
    \A i, j \in DOMAIN tmsg.headers : i # j => tmsg.headers[i] # tmsg.headers[j]

=============================================================================
